---- MODULE Spec2Model ----
(***************************************************************************)
(* Model of the biomedical paper fetchers of zotero-paper-daily:            *)
(*   src/assets/biomed_fetcher.py  fetch_biorxiv_papers, fetch_pubmed_papers,*)
(*                                 _parse_pubmed_xml, fetch_all_biomed_papers*)
(*   src/biomed_paper.py           BiomedPaper                               *)
(* Strings are tuples of one-character strings, so that lower(), strip(),    *)
(* replace() and the substring test are computed, not assumed.               *)
(***************************************************************************)
EXTENDS Integers, Sequences, FiniteSets, TLC

(* ------------------------------------------------------------------------ *)
(* Bounds of the model                                                       *)
(* ------------------------------------------------------------------------ *)
\* records (collection items, article elements) the upstream sends during one
\* call of a fetcher, and during one call of fetch_all_biomed_papers
MaxRecords == 3
MaxAggRecords == 2
\* requests issued during one call of a fetcher, and during one call of
\* fetch_all_biomed_papers
MaxRequests == 4
MaxAggRequests == 3
\* largest max_results / max_per_source that is tried
MaxResults == 2
\* papers in a list handed to the deduplication on its own
MaxPapers == 3
MaxArticles == 2
MaxAffiliations == 3
MaxReads == 2

(* ------------------------------------------------------------------------ *)
(* Python string operations                                                  *)
(* ------------------------------------------------------------------------ *)
\* str.lower() on one character
LowerChar(c) ==
  CASE c = "A" -> "a"
    [] c = "B" -> "b"
    [] c = "I" -> "i"
    [] c = "L" -> "l"
    [] c = "M" -> "m"
    [] c = "P" -> "p"
    [] c = "V" -> "v"
    [] OTHER -> c

\* str.lower()
Lower(s) == [i \in 1..Len(s) |-> LowerChar(s[i])]

\* str.replace(" ", "_")
ReplaceSpace(s) == [i \in 1..Len(s) |-> IF s[i] = " " THEN "_" ELSE s[i]]

RECURSIVE LStrip(_)
LStrip(s) == IF s # <<>> /\ Head(s) = " " THEN LStrip(Tail(s)) ELSE s

RECURSIVE RStrip(_)
RStrip(s) ==
  IF s # <<>> /\ s[Len(s)] = " " THEN RStrip(SubSeq(s, 1, Len(s) - 1)) ELSE s

\* str.strip()
Strip(s) == RStrip(LStrip(s))

\* the substring test  sub in s
Contains(sub, s) ==
  \E i \in 0..(Len(s) - Len(sub)) : SubSeq(s, i + 1, i + Len(sub)) = sub

\* sep.join(parts)
RECURSIVE Join(_, _)
Join(sep, parts) ==
  IF parts = <<>> THEN <<>>
  ELSE IF Len(parts) = 1 THEN parts[1]
  ELSE parts[1] \o sep \o Join(sep, Tail(parts))

(* ------------------------------------------------------------------------ *)
(* Program constants                                                         *)
(* ------------------------------------------------------------------------ *)
\* line 97 moving the cursor on by half a page
PageSizeHalf == 100 \div 2

\* cursor += 100
PageSize == 100
\* batch_size = 50
batch_size == 50
\* granularity of the identifier counts that are tried
IdStep == batch_size

(* ------------------------------------------------------------------------ *)
(* BiomedPaper                                                               *)
(* ------------------------------------------------------------------------ *)
\* the value of a key that paper_data does not have
NoKey == <<"<", "n", "o", "k", "e", "y", ">">>

\* BiomedPaper(paper_data, source): the fields of _data that are read back
BiomedPaper(source, title, abstract, doi, pmid, pdfUrl) ==
  [source |-> source, title |-> title, abstract |-> abstract, doi |-> doi,
   pmid |-> pmid, pdf_url |-> pdfUrl]

\* BiomedPaper.title
Title(p) == p.title

\* BiomedPaper.summary
Summary(p) == p.abstract

\* BiomedPaper.doi
Doi(p) == p.doi

\* BiomedPaper.paper_id:  _data.get("pmid", self.doi) for pubmed, else doi
PaperId(p) ==
  IF p.source = "pubmed"
  THEN (IF p.pmid = NoKey THEN Doi(p) ELSE p.pmid)
  ELSE Doi(p)

(* ------------------------------------------------------------------------ *)
(* What the upstream services can send                                       *)
(* ------------------------------------------------------------------------ *)
\* Items of a preprint-server page's "collection".  nullCategory: the
\* "category" key holds a JSON null, so item.get("category", "") is None.
BxItem(cat, title, abstract, doi, nullCat) ==
  [category |-> cat, title |-> title, abstract |-> abstract, doi |-> doi,
   nullCategory |-> nullCat]

BxItems ==
  { BxItem(<<"I", "_", "m">>, <<"A", "b">>, <<"v">>, <<>>, FALSE),
    BxItem(<<"x">>, <<"a", "b", " ">>, <<"V">>, <<>>, FALSE),
    BxItem(<<"I", " ", "m">>, <<"c">>, <<"c">>, <<"a", "b">>, FALSE),
    BxItem(<<"x", "i", "_", "m">>, <<"v">>, <<>>, <<"d">>, FALSE),
    BxItem(<<>>, <<"y">>, <<"v">>, <<>>, TRUE) }

\* PubmedArticle elements of a detail-fetch document: the PMID text, the
\* ArticleTitle text, the AbstractText segments as <<Label, text>>, the
\* ArticleId elements that findall(".//ArticleId") gives, in document order,
\* as <<IdType, text, own>> (own: the element is in the record's own
\* ArticleIdList and not in the ArticleIdList of one of its references), and
\* whether every present PubDate component carries text (an empty <Year/>
\* makes "-".join raise).
PmArticle(pmid, title, abs, ids, dateOk) ==
  [pmid |-> pmid, title |-> title, abs |-> abs, ids |-> ids, dateOk |-> dateOk]

PmArticles ==
  { PmArticle(<<"1">>, <<" ", "A", "b", " ">>, << <<<<>>, <<"v">>>> >>,
              << <<"doi", <<"a", "b">>, TRUE>> >>, TRUE),
    PmArticle(<<"2">>, <<"c">>, <<>>,
              << <<"pmc", <<"P">>, TRUE>>, <<"doi", <<"d">>, TRUE>> >>, TRUE),
    PmArticle(<<"3">>, <<" ">>, << <<<<"L">>, <<"v">>>> >>, <<>>, TRUE),
    PmArticle(<<"4">>, <<"a", "b">>, << <<<<"L">>, <<>>>> >>,
              << <<"pmc", <<"P">>, TRUE>> >>, TRUE),
    PmArticle(<<"5">>, <<"c">>, << <<<<>>, <<"v">>>> >>,
              << <<"doi", <<"d">>, TRUE>> >>, FALSE) }

\* the elements _parse_pubmed_xml is checked on: those above, and elements
\* that give a paper with both identifiers, with none, with a pmc ArticleId
\* without text next to a doi, and with a doi of its own and a reference
\* that has a pmc identifier
ParseArticles ==
  PmArticles \cup
  { PmArticle(<<"6">>, <<"c">>, << <<<<>>, <<"v">>>> >>,
              << <<"doi", <<"d">>, TRUE>>, <<"pmc", <<"P">>, TRUE>> >>, TRUE),
    PmArticle(<<"7">>, <<"y">>, << <<<<>>, <<"v">>>> >>,
              << <<"pii", <<"x">>, TRUE>> >>, TRUE),
    PmArticle(<<"8">>, <<"y">>, << <<<<>>, <<"v">>>> >>,
              << <<"pmc", <<>>, TRUE>>, <<"doi", <<"d">>, TRUE>> >>, TRUE),
    PmArticle(<<"9">>, <<"y">>, << <<<<>>, <<"v">>>> >>,
              << <<"doi", <<"d">>, TRUE>>, <<"pmc", <<"P">>, FALSE>> >>, TRUE) }

\* sequences over S of length 0..n
SeqUpTo(S, n) == UNION { [1..k -> S] : k \in 0..n }

\* the filter lists a caller may pass (None is modelled as the absent list)
CategoryLists == { << <<"i", " ", "M">> >> }
KeywordLists == { << <<"V">> >>, << <<"z">>, <<"A", "B">> >> }
None == << <<"<", "N", "o", "n", "e", ">">> >>

\* Python truth value of an optional list: None and [] are both false
Truthy(list) == list # None /\ list # <<>>

(* ------------------------------------------------------------------------ *)
(* BiomedPaper.pdf_url                                                       *)
(* ------------------------------------------------------------------------ *)
PdfUrl(p) ==
  IF p.pdf_url # <<>> THEN p.pdf_url
  ELSE IF p.source = "biorxiv"
       THEN <<"https://www.biorxiv.org/content/">> \o Doi(p) \o <<"v1.full.pdf">>
  ELSE IF p.source = "medrxiv"
       THEN <<"https://www.medrxiv.org/content/">> \o Doi(p) \o <<"v1.full.pdf">>
  ELSE IF p.source = "pubmed" /\ Doi(p) # <<>>
       THEN <<"https://doi.org/">> \o Doi(p)
  ELSE <<>>

(* ------------------------------------------------------------------------ *)
(* _parse_pubmed_xml, one PubmedArticle element                              *)
(* ------------------------------------------------------------------------ *)
\* _get_text: "".join(element.itertext()).strip()
GetText(text) == Strip(text)

\* the abstract_parts of lines 213-220
AbstractParts(abs) ==
  [k \in 1..Len(abs) |->
     IF abs[k][1] # <<>>
     THEN abs[k][1] \o <<":", " ">> \o GetText(abs[k][2])
     ELSE GetText(abs[k][2])]

\* abstract = " ".join(abstract_parts)
ArticleAbstract(a) == Join(<<" ">>, AbstractParts(a.abs))

\* text of the first ArticleId whose IdType is type, else ""
RECURSIVE FirstId(_, _)
FirstId(ids, type) ==
  IF ids = <<>> THEN <<>>
  ELSE IF Head(ids)[1] = type THEN Head(ids)[2]
  ELSE FirstId(Tail(ids), type)

\* lines 266-276
ArticlePdfUrl(a) ==
  LET pmc_id == FirstId(a.ids, "pmc")
      doi == FirstId(a.ids, "doi")
  IN IF pmc_id # <<>>
     THEN <<"https://www.ncbi.nlm.nih.gov/pmc/articles/">> \o pmc_id \o <<"/pdf/">>
     ELSE IF doi # <<>> THEN <<"https://doi.org/">> \o doi
     ELSE <<>>

\* lines 278-279:  not (not title or not abstract)
HasTitleAndAbstract(title, abstract) == title # <<>> /\ abstract # <<>>

\* the body of the loop of lines 202-296: the papers one element adds.  An
\* exception inside the body (the date join) is caught and the element skipped.
ParseArticle(a) ==
  LET title == GetText(a.title)
      abstract == ArticleAbstract(a)
  IN IF ~a.dateOk THEN <<>>
     ELSE IF ~HasTitleAndAbstract(title, abstract) THEN <<>>
     ELSE << BiomedPaper("pubmed", title, abstract, FirstId(a.ids, "doi"),
                         a.pmid, ArticlePdfUrl(a)) >>

\* _parse_pubmed_xml on a document that parses: its PubmedArticle elements
RECURSIVE ParsePubmedXml(_)
ParsePubmedXml(doc) ==
  IF doc = <<>> THEN <<>>
  ELSE ParseArticle(Head(doc)) \o ParsePubmedXml(Tail(doc))

(* ------------------------------------------------------------------------ *)
(* fetch_biorxiv_papers, the filters and the loop over one page              *)
(* ------------------------------------------------------------------------ *)
\* lines 69-70
CategoryMatch(item, categories) ==
  LET item_cat == ReplaceSpace(Lower(item.category))
  IN \E k \in 1..Len(categories) :
       Contains(ReplaceSpace(Lower(categories[k])), item_cat)

\* lines 75-76
KeywordMatch(item, keywords) ==
  LET text == Lower(item.title \o <<" ">> \o item.abstract)
  IN \E k \in 1..Len(keywords) : Contains(Lower(keywords[k]), text)

\* lines 68-77 with the two filters as alternatives: matching one is enough
PassesEitherFilter(item, categories, keywords) ==
  \/ ~Truthy(categories) /\ ~Truthy(keywords)
  \/ Truthy(categories) /\ CategoryMatch(item, categories)
  \/ Truthy(keywords) /\ KeywordMatch(item, keywords)

\* the item is not skipped by a continue of lines 68-77
PassesFilters(item, categories, keywords) ==
  /\ Truthy(categories) => CategoryMatch(item, categories)
  /\ Truthy(keywords) => KeywordMatch(item, keywords)

\* line 69 raises AttributeError on a null category
ItemRaises(item, categories) == Truthy(categories) /\ item.nullCategory

\* lines 79-91
ItemPaper(item, server) ==
  BiomedPaper(server, item.title, item.abstract, item.doi, NoKey, <<>>)

\* the for loop of lines 66-94 from item k on: the papers list on leaving the
\* loop and whether an exception left it
RECURSIVE ProcessPage(_, _, _, _, _, _, _)
ProcessPage(papers, collection, k, categories, keywords, max_results, server) ==
  IF k > Len(collection) THEN [papers |-> papers, raised |-> FALSE]
  ELSE IF ItemRaises(collection[k], categories)
       THEN [papers |-> papers, raised |-> TRUE]
  ELSE IF ~PassesFilters(collection[k], categories, keywords)
       THEN ProcessPage(papers, collection, k + 1, categories, keywords,
                        max_results, server)
  ELSE LET appended == Append(papers, ItemPaper(collection[k], server))
       IN IF Len(appended) >= max_results
          THEN [papers |-> appended, raised |-> FALSE]
          ELSE ProcessPage(appended, collection, k + 1, categories, keywords,
                           max_results, server)

(* ------------------------------------------------------------------------ *)
(* fetch_all_biomed_papers, the deduplication loop                           *)
(* ------------------------------------------------------------------------ *)
\* line 364 without the lower(): titles compared case-sensitively
DedupKeyCaseSensitive(p) == IF Doi(p) # <<>> THEN Doi(p) ELSE Strip(Title(p))

\* line 364
DedupKey(p) == IF Doi(p) # <<>> THEN Doi(p) ELSE Strip(Lower(Title(p)))

\* lines 361-367 from paper k on
RECURSIVE DedupLoop(_, _, _, _)
DedupLoop(all, k, seen_dois, unique_papers) ==
  IF k > Len(all) THEN unique_papers
  ELSE LET key == DedupKey(all[k])
       IN IF key \notin seen_dois
          THEN DedupLoop(all, k + 1, seen_dois \cup {key},
                         Append(unique_papers, all[k]))
          ELSE DedupLoop(all, k + 1, seen_dois, unique_papers)

Deduplicate(all) == DedupLoop(all, 1, {}, <<>>)

(* ------------------------------------------------------------------------ *)
(* State                                                                     *)
(* ------------------------------------------------------------------------ *)
VARIABLES
  entry,               \* the function the caller invoked
  pc,                  \* position of the running code
  pubmed_query,        \* arguments of fetch_all_biomed_papers
  biorxiv_categories,
  biorxiv_keywords,
  medrxiv_keywords,
  max_per_source,
  all_papers,          \* fetch_all_biomed_papers: all_papers
  server,              \* arguments of the running fetch_biorxiv_papers call
  categories,
  keywords,
  max_results,         \* max_results of the running fetcher call
  papers,              \* the running fetcher's papers list
  cursor,              \* fetch_biorxiv_papers: cursor
  pmids,               \* fetch_pubmed_papers: pmids
  i,                   \* fetch_pubmed_papers: loop variable of line 168
  result,              \* the value returned to the caller
  trace,               \* history: calls, requests, sleeps, returns, in order
  seen,                \* history: collection items of the running call's pages
  good,                \* history: papers parsed from the batches that succeeded
  batches,             \* history: the identifiers of each detail-fetch request
  ret,                 \* history: what each source returned to the aggregator
  budget,              \* records the upstream may still send in this run
  quota,               \* requests that may still be issued in this run
  server_total,        \* the total every page of this run reports, if fixed
  xml_text,            \* _parse_pubmed_xml: the document it is given
  affiliations_raw,    \* BiomedPaper: _data["affiliations_raw"]
  cached,              \* BiomedPaper: the cached_property slot of affiliations
  reads                \* history: the values the reads of affiliations gave

vars ==
  << entry, pc, pubmed_query, biorxiv_categories, biorxiv_keywords,
     medrxiv_keywords, max_per_source, all_papers, server, categories,
     keywords, max_results, papers, cursor, pmids, i, result, trace, seen,
     good, batches, ret, budget, quota, server_total, xml_text,
     affiliations_raw, cached, reads >>

argVars ==
  << entry, pubmed_query, biorxiv_categories, biorxiv_keywords,
     medrxiv_keywords, max_per_source >>

bxArgs == << server, categories, keywords >>

\* the state of the object a property is read from
objVars == << xml_text, affiliations_raw, cached, reads >>

\* the value of affiliations: None, or a list of strings
NoneAff == [isNone |-> TRUE, list |-> <<>>]
ListAff(list) == [isNone |-> FALSE, list |-> list]

\* the cached_property slot before the first read
Unset == [set |-> FALSE, value |-> NoneAff]

\* no document and no raw affiliations: the fetchers' runs read no property
NoDocument == [wellFormed |-> TRUE, articles |-> <<>>]
NoRaw == [kind |-> "other", items |-> <<>>]
NoObject ==
  /\ xml_text = NoDocument
  /\ affiliations_raw = NoRaw
  /\ cached = Unset
  /\ reads = <<>>

\* an entry of the history; n: the cursor or the batch offset of a request
Event(ev, who, n, outcome) == [ev |-> ev, who |-> who, n |-> n, outcome |-> outcome]

\* pubmed_query is None or a string
QueryNone == <<"<None>">>
TruthyStr(str) == str # QueryNone /\ str # <<>>

Sources == {"pubmed", "biorxiv", "medrxiv"}

NotCalled == [called |-> FALSE, papers |-> <<>>]

\* the numbers of identifiers a search lists: a multiple of IdStep or one
\* more, and no more than the requests left after the search can fetch
IdCounts ==
  { n \in 0..((quota - 1) * batch_size) : n % IdStep \in {0, 1} }

\* the totals a page reports
Totals == { u * (PageSize \div 2) : u \in 0..(2 * MaxRequests + 1) }

\* server_total when the pages of a run may report different totals
NoTotal == -1

(* ------------------------------------------------------------------------ *)
(* Init: the caller invokes one of the three public functions                *)
(* ------------------------------------------------------------------------ *)
InitLocals ==
  /\ all_papers = <<>>
  /\ papers = <<>>
  /\ cursor = 0
  /\ pmids = <<>>
  /\ i = 0
  /\ result = <<>>
  /\ trace = <<>>
  /\ seen = <<>>
  /\ good = <<>>
  /\ batches = <<>>
  /\ ret = [s \in Sources |-> NotCalled]

InitCommon == InitLocals /\ NoObject /\ server_total = NoTotal

\* no fetcher is called: its arguments and the upstream's allowance
NoFetch ==
  /\ pubmed_query = QueryNone
  /\ biorxiv_categories = None
  /\ biorxiv_keywords = None
  /\ medrxiv_keywords = None
  /\ max_per_source = 0
  /\ server = "biorxiv"
  /\ categories = None
  /\ keywords = None
  /\ max_results = 0
  /\ budget = 0
  /\ quota = 0
  /\ server_total = NoTotal

InitFetchAll ==
  /\ entry = "fetch_all_biomed_papers"
  /\ pc = "agg_pubmed"
  /\ pubmed_query \in {QueryNone, <<>>, <<"q">>}
  /\ biorxiv_categories \in {None} \cup CategoryLists
  /\ biorxiv_keywords \in {None, << <<"V">> >>}
  /\ medrxiv_keywords \in {None, << <<"V">> >>}
  /\ max_per_source = MaxResults
  /\ budget = MaxAggRecords
  /\ quota = MaxAggRequests
  /\ server = "biorxiv"
  /\ categories = None
  /\ keywords = None
  /\ max_results = 0

InitFetchBiorxiv ==
  /\ entry = "fetch_biorxiv_papers"
  /\ pc = "bx_loop"
  /\ pubmed_query = QueryNone
  /\ biorxiv_categories = None
  /\ biorxiv_keywords = None
  /\ medrxiv_keywords = None
  /\ max_per_source = 0
  /\ budget = MaxRecords
  /\ quota = MaxRequests
  /\ server = "biorxiv"
  /\ categories \in {None, <<>>} \cup CategoryLists
  /\ keywords \in {None} \cup KeywordLists
  /\ max_results \in 0..MaxResults

InitFetchPubmed ==
  /\ entry = "fetch_pubmed_papers"
  /\ pc = "pm_search"
  /\ pubmed_query = <<"q">>
  /\ budget = MaxRecords
  /\ quota = MaxRequests
  /\ biorxiv_categories = None
  /\ biorxiv_keywords = None
  /\ medrxiv_keywords = None
  /\ max_per_source = 0
  /\ server = "biorxiv"
  /\ categories = None
  /\ keywords = None
  /\ max_results \in 0..MaxResults

\* the papers fetch_pubmed_papers can return
PubmedPapers == { ParseArticle(a)[1] : a \in { b \in PmArticles : ParseArticle(b) # <<>> } }

\* the papers fetch_biorxiv_papers can return for these filters
PreprintPapers(srv, cats, kws) ==
  { ItemPaper(item, srv) :
      item \in { it \in BxItems : ~ItemRaises(it, cats) /\ PassesFilters(it, cats, kws) } }

\* fetch_all_biomed_papers at line 360: all_papers is what the invoked
\* sources returned, in the order of lines 336, 347 and 358
InitDedupOnly ==
  /\ entry = "fetch_all_biomed_papers"
  /\ pc = "agg_dedup"
  /\ pubmed_query \in {QueryNone, <<"q">>}
  /\ biorxiv_categories \in {None} \cup CategoryLists
  /\ biorxiv_keywords \in {None} \cup KeywordLists
  /\ medrxiv_keywords \in {None} \cup KeywordLists
  /\ max_per_source = MaxPapers
  /\ server = "biorxiv"
  /\ categories = None
  /\ keywords = None
  /\ max_results = 0
  /\ papers = <<>>
  /\ cursor = 0
  /\ pmids = <<>>
  /\ i = 0
  /\ result = <<>>
  /\ trace = <<>>
  /\ seen = <<>>
  /\ good = <<>>
  /\ batches = <<>>
  /\ budget = 0
  /\ quota = 0
  /\ server_total = NoTotal
  /\ NoObject
  /\ \E np \in 0..(IF TruthyStr(pubmed_query) THEN MaxPapers ELSE 0) :
     \E nb \in 0..(IF Truthy(biorxiv_categories) \/ Truthy(biorxiv_keywords)
                    THEN MaxPapers - np ELSE 0) :
     \E nm \in 0..(IF Truthy(medrxiv_keywords) THEN MaxPapers - np - nb ELSE 0) :
     \E pm \in [1..np -> PubmedPapers],
        bx \in [1..nb -> PreprintPapers("biorxiv", biorxiv_categories,
                                        biorxiv_keywords)],
        md \in [1..nm -> PreprintPapers("medrxiv", None, medrxiv_keywords)] :
       /\ all_papers = pm \o bx \o md
       /\ ret = [s \in Sources |->
                   IF s = "pubmed"
                   THEN [called |-> TruthyStr(pubmed_query), papers |-> pm]
                   ELSE IF s = "biorxiv"
                   THEN [called |-> Truthy(biorxiv_categories)
                                      \/ Truthy(biorxiv_keywords),
                         papers |-> bx]
                   ELSE [called |-> Truthy(medrxiv_keywords), papers |-> md]]

\* fetch_biorxiv_papers against a server whose pages all report the total
\* server_total; the run may issue one request more than the pages of the
\* largest total need, and max_results may be negative
InitFetchBiorxivSteady ==
  /\ entry = "fetch_biorxiv_papers"
  /\ pc = "bx_loop"
  /\ pubmed_query = QueryNone
  /\ biorxiv_categories = None
  /\ biorxiv_keywords = None
  /\ medrxiv_keywords = None
  /\ max_per_source = 0
  /\ budget = MaxAggRecords
  /\ quota = MaxRequests + 1
  /\ server_total \in { t \in Totals : t <= MaxRequests * PageSize }
  /\ server = "biorxiv"
  /\ categories \in {None} \cup CategoryLists
  /\ keywords \in {None, << <<"V">> >>}
  /\ max_results \in (-1)..MaxResults

Init == InitCommon /\ InitFetchAll
InitBiorxiv == InitCommon /\ InitFetchBiorxiv
InitPubmed == InitCommon /\ InitFetchPubmed
InitDedup == InitDedupOnly
InitBiorxivSteady == InitLocals /\ NoObject /\ InitFetchBiorxivSteady

(* ------------------------------------------------------------------------ *)
(* fetch_biorxiv_papers                                                      *)
(* ------------------------------------------------------------------------ *)
\* data["messages"] of a decoded page: a list whose first entry reports the
\* total (0 when the key is missing), or a value line 98 or 99 raises on (an
\* empty list: IndexError; a total that is not a number: TypeError)
Metas ==
  { [kind |-> "total", total |-> t] : t \in Totals }
    \cup { [kind |-> "unusable_messages", total |-> 0] }

\* collections the upstream can still send
Collections == SeqUpTo(BxItems, budget)

\* line 51: the while condition is false
BxLoopExit ==
  /\ pc = "bx_loop"
  /\ ~(Len(papers) < max_results)
  /\ pc' = "bx_ret"
  /\ UNCHANGED << argVars, bxArgs, all_papers, max_results, papers, cursor,
                  pmids, i, result, trace, seen, good, ret, budget, quota, batches,
                  objVars, server_total >>

\* lines 58-60 giving up the papers gathered so far
BxPageFailDropsPapers ==
  /\ pc = "bx_loop"
  /\ Len(papers) < max_results
  /\ quota > 0
  /\ quota' = quota - 1
  /\ trace' = Append(trace, Event("request", server, cursor, "fail"))
  /\ papers' = <<>>
  /\ pc' = "bx_ret"
  /\ UNCHANGED << argVars, bxArgs, all_papers, max_results, cursor,
                  pmids, i, result, seen, good, ret, budget, batches,
                  objVars, server_total >>

\* lines 52-57 raise: the except clause of lines 58-60 breaks out of the loop
BxPageFail ==
  /\ pc = "bx_loop"
  /\ Len(papers) < max_results
  /\ quota > 0
  /\ quota' = quota - 1
  /\ trace' = Append(trace, Event("request", server, cursor, "fail"))
  /\ pc' = "bx_ret"
  /\ UNCHANGED << argVars, bxArgs, all_papers, max_results, papers, cursor,
                  pmids, i, result, seen, good, ret, budget, batches,
                  objVars, server_total >>

\* lines 99-102 without the test of the total: the loop goes on
AfterPageIgnoresTotal(next_cursor, total) == "bx_sleep"

\* lines 99-102: the position after a page that moved the cursor on
AfterPage(next_cursor, total) ==
  IF next_cursor >= total THEN "bx_ret" ELSE "bx_sleep"

\* lines 52-102 with a decoded page
BxPage(collection, meta) ==
  /\ pc = "bx_loop"
  /\ Len(papers) < max_results
  /\ quota > 0
  /\ server_total # NoTotal => meta = [kind |-> "total", total |-> server_total]
  /\ quota' = quota - 1
  /\ budget' = budget - Len(collection)
  /\ seen' = seen \o collection
  /\ LET r == ProcessPage(papers, collection, 1, categories, keywords,
                          max_results, server)
         requested == Append(trace, Event("request", server, cursor, "ok"))
     IN IF collection = <<>>
        THEN /\ pc' = "bx_ret"
             /\ trace' = requested
             /\ UNCHANGED << papers, cursor >>
        ELSE IF r.raised
        THEN /\ pc' = "raised"
             /\ trace' = Append(requested, Event("raise", server, cursor, "item"))
             /\ papers' = r.papers
             /\ UNCHANGED cursor
        ELSE /\ papers' = r.papers
             /\ cursor' = cursor + PageSize
             /\ IF meta.kind # "total"
                THEN /\ pc' = "raised"
                     /\ trace' = Append(requested,
                                        Event("raise", server, cursor, meta.kind))
                ELSE /\ pc' = AfterPage(cursor', meta.total)
                     /\ trace' = requested
  /\ UNCHANGED << argVars, bxArgs, all_papers, max_results, pmids, i, result,
                  good, ret, batches,
                  objVars, server_total >>

\* the loop without line 102: the next iteration starts at once
BxNoSleep ==
  /\ pc = "bx_sleep"
  /\ pc' = "bx_loop"
  /\ UNCHANGED << argVars, bxArgs, all_papers, max_results, papers, cursor,
                  pmids, i, result, trace, seen, good, ret, budget, quota,
                  batches, objVars, server_total >>

\* line 102
BxSleep ==
  /\ pc = "bx_sleep"
  /\ pc' = "bx_loop"
  /\ trace' = Append(trace, Event("sleep", server, 1, "1s"))
  /\ UNCHANGED << argVars, bxArgs, all_papers, max_results, papers, cursor,
                  pmids, i, result, seen, good, ret, budget, quota, batches,
                  objVars, server_total >>

\* line 105, with lines 347 and 358 putting the papers in front; the locals
\* of the call end with it
BxReturnPrepends ==
  /\ pc = "bx_ret"
  /\ trace' = Append(trace, Event("return", server, Len(papers), "ok"))
  /\ IF entry = "fetch_biorxiv_papers"
     THEN /\ pc' = "done"
          /\ result' = papers
          /\ UNCHANGED << all_papers, ret, papers, cursor, seen >>
     ELSE /\ pc' = IF server = "biorxiv" THEN "agg_medrxiv" ELSE "agg_dedup"
          /\ all_papers' = papers \o all_papers
          /\ ret' = [ret EXCEPT ![server] = [called |-> TRUE, papers |-> papers]]
          /\ papers' = <<>>
          /\ cursor' = 0
          /\ seen' = <<>>
          /\ UNCHANGED result
  /\ UNCHANGED << argVars, bxArgs, max_results, pmids, i, good, budget, quota,
                  batches,
                  objVars, server_total >>

\* line 105, and in fetch_all_biomed_papers lines 347 and 358; the locals of
\* the call end with it
BxReturn ==
  /\ pc = "bx_ret"
  /\ trace' = Append(trace, Event("return", server, Len(papers), "ok"))
  /\ IF entry = "fetch_biorxiv_papers"
     THEN /\ pc' = "done"
          /\ result' = papers
          /\ UNCHANGED << all_papers, ret, papers, cursor, seen >>
     ELSE /\ pc' = IF server = "biorxiv" THEN "agg_medrxiv" ELSE "agg_dedup"
          /\ all_papers' = all_papers \o papers
          /\ ret' = [ret EXCEPT ![server] = [called |-> TRUE, papers |-> papers]]
          /\ papers' = <<>>
          /\ cursor' = 0
          /\ seen' = <<>>
          /\ UNCHANGED result
  /\ UNCHANGED << argVars, bxArgs, max_results, pmids, i, good, budget, quota,
                  batches,
                  objVars, server_total >>

(* ------------------------------------------------------------------------ *)
(* fetch_pubmed_papers                                                       *)
(* ------------------------------------------------------------------------ *)
\* pmids[i:i + batch_size]
Batch(ids, start) ==
  SubSeq(ids, start + 1,
         IF start + batch_size < Len(ids) THEN start + batch_size ELSE Len(ids))

\* the next position of the loop of line 168 after the batch at i
AfterBatch == IF i + batch_size < Len(pmids) THEN "pm_batch" ELSE "pm_ret"

\* lines 148-152 without the except clause: the failure propagates
PmSearchFailRaises ==
  /\ pc = "pm_search"
  /\ quota > 0
  /\ quota' = quota - 1
  /\ trace' = Append(trace, Event("request", "esearch", 0, "fail"))
  /\ pc' = "raised"
  /\ UNCHANGED << argVars, bxArgs, all_papers, max_results, papers, cursor,
                  pmids, i, result, seen, good, ret, budget, batches,
                  objVars, server_total >>

\* lines 148-155: the search round-trip fails
PmSearchFail ==
  /\ pc = "pm_search"
  /\ quota > 0
  /\ quota' = quota - 1
  /\ trace' = Append(trace, Event("request", "esearch", 0, "fail"))
  /\ papers' = <<>>
  /\ pc' = "pm_ret"
  /\ UNCHANGED << argVars, bxArgs, all_papers, max_results, cursor, pmids, i,
                  result, seen, good, ret, budget, batches,
                  objVars, server_total >>

\* line 157 on a decoded body that is not an object: AttributeError
PmSearchMalformed ==
  /\ pc = "pm_search"
  /\ quota > 0
  /\ quota' = quota - 1
  /\ trace' = Append(Append(trace, Event("request", "esearch", 0, "malformed")),
                     Event("raise", "pubmed", 0, "search_body"))
  /\ pc' = "raised"
  /\ UNCHANGED << argVars, bxArgs, all_papers, max_results, papers, cursor,
                  pmids, i, result, seen, good, ret, budget, batches,
                  objVars, server_total >>

\* lines 148-166 without the early return of lines 158-160
PmSearchNoEarlyReturn(n) ==
  /\ pc = "pm_search"
  /\ quota > 0
  /\ quota' = quota - 1
  /\ trace' = Append(trace, Event("request", "esearch", 0, "ok"))
  /\ pmids' = [k \in 1..n |-> k]
  /\ papers' = <<>>
  /\ i' = 0
  /\ pc' = "pm_batch"
  /\ UNCHANGED << argVars, bxArgs, all_papers, max_results, cursor, result,
                  seen, good, ret, budget, batches,
                  objVars, server_total >>

\* lines 148-166: the search lists n identifiers
PmSearch(n) ==
  /\ pc = "pm_search"
  /\ quota > 0
  /\ quota' = quota - 1
  /\ trace' = Append(trace, Event("request", "esearch", 0, "ok"))
  /\ pmids' = [k \in 1..n |-> k]
  /\ papers' = <<>>
  /\ i' = 0
  /\ pc' = IF n = 0 THEN "pm_ret" ELSE "pm_batch"
  /\ UNCHANGED << argVars, bxArgs, all_papers, max_results, cursor, result,
                  seen, good, ret, budget, batches,
                  objVars, server_total >>

\* lines 183-185 with break in place of continue
PmBatchFailAborts ==
  /\ pc = "pm_batch"
  /\ quota > 0
  /\ quota' = quota - 1
  /\ batches' = Append(batches, Batch(pmids, i))
  /\ trace' = Append(trace, Event("request", "efetch", i, "fail"))
  /\ i' = i + batch_size
  /\ pc' = "pm_ret"
  /\ UNCHANGED << argVars, bxArgs, all_papers, max_results, papers, cursor,
                  pmids, result, seen, good, ret, budget,
                  objVars, server_total >>

\* lines 179-185: the detail fetch of the batch at i fails
PmBatchFail ==
  /\ pc = "pm_batch"
  /\ quota > 0
  /\ quota' = quota - 1
  /\ batches' = Append(batches, Batch(pmids, i))
  /\ trace' = Append(trace, Event("request", "efetch", i, "fail"))
  /\ i' = i + batch_size
  /\ pc' = AfterBatch
  /\ UNCHANGED << argVars, bxArgs, all_papers, max_results, papers, cursor,
                  pmids, result, seen, good, ret, budget,
                  objVars, server_total >>

\* lines 179-182 and 196-200: the body is not well-formed, _parse_pubmed_xml
\* returns the empty list
PmBatchUnparseable ==
  /\ pc = "pm_batch"
  /\ quota > 0
  /\ quota' = quota - 1
  /\ batches' = Append(batches, Batch(pmids, i))
  /\ trace' = Append(trace, Event("request", "efetch", i, "unparseable"))
  /\ pc' = "pm_sleep"
  /\ UNCHANGED << argVars, bxArgs, all_papers, max_results, papers, cursor,
                  pmids, i, result, seen, good, ret, budget,
                  objVars, server_total >>

\* lines 179-182: the detail fetch returns the document doc
PmBatch(doc) ==
  /\ pc = "pm_batch"
  /\ quota > 0
  /\ quota' = quota - 1
  /\ batches' = Append(batches, Batch(pmids, i))
  /\ Len(doc) <= budget
  /\ budget' = budget - Len(doc)
  /\ trace' = Append(trace, Event("request", "efetch", i, "ok"))
  /\ papers' = papers \o ParsePubmedXml(doc)
  /\ good' = good \o ParsePubmedXml(doc)
  /\ pc' = "pm_sleep"
  /\ UNCHANGED << argVars, bxArgs, all_papers, max_results, cursor, pmids, i,
                  result, seen, ret,
                  objVars, server_total >>

\* line 187, then the next iteration of line 168
PmSleep ==
  /\ pc = "pm_sleep"
  /\ trace' = Append(trace, Event("sleep", "pubmed", i, "0.4s"))
  /\ i' = i + batch_size
  /\ pc' = AfterBatch
  /\ UNCHANGED << argVars, bxArgs, all_papers, max_results, papers, cursor,
                  pmids, result, seen, good, ret, budget, quota, batches,
                  objVars, server_total >>

\* lines 155, 160, 190, and in fetch_all_biomed_papers line 336; the locals
\* of the call end with it
PmReturn ==
  /\ pc = "pm_ret"
  /\ trace' = Append(trace, Event("return", "pubmed", Len(papers), "ok"))
  /\ IF entry = "fetch_pubmed_papers"
     THEN /\ pc' = "done"
          /\ result' = papers
          /\ UNCHANGED << all_papers, ret, papers, pmids, i, good, batches >>
     ELSE /\ pc' = "agg_biorxiv"
          /\ all_papers' = all_papers \o papers
          /\ ret' = [ret EXCEPT !["pubmed"] = [called |-> TRUE, papers |-> papers]]
          /\ papers' = <<>>
          /\ pmids' = <<>>
          /\ i' = 0
          /\ good' = <<>>
          /\ batches' = <<>>
          /\ UNCHANGED result
  /\ UNCHANGED << argVars, bxArgs, max_results, cursor, seen, budget, quota,
                  objVars, server_total >>

(* ------------------------------------------------------------------------ *)
(* fetch_all_biomed_papers                                                   *)
(* ------------------------------------------------------------------------ *)
\* lines 329-335: the call of fetch_pubmed_papers
AggCallPubmed ==
  /\ pc = "agg_pubmed"
  /\ TruthyStr(pubmed_query)
  /\ pc' = "pm_search"
  /\ max_results' = max_per_source
  /\ papers' = <<>>
  /\ good' = <<>>
  /\ trace' = Append(trace, Event("call", "pubmed", max_per_source, "ok"))
  /\ UNCHANGED << argVars, bxArgs, all_papers, cursor, pmids, i, result, seen,
                  ret, budget, quota, batches,
                  objVars, server_total >>

\* line 329 is false
AggSkipPubmed ==
  /\ pc = "agg_pubmed"
  /\ ~TruthyStr(pubmed_query)
  /\ pc' = "agg_biorxiv"
  /\ UNCHANGED << argVars, bxArgs, all_papers, max_results, papers, cursor,
                  pmids, i, result, trace, seen, good, ret, budget, quota, batches,
                  objVars, server_total >>

\* lines 339-346: the call of fetch_biorxiv_papers(server="biorxiv")
AggCallBiorxiv ==
  /\ pc = "agg_biorxiv"
  /\ Truthy(biorxiv_categories) \/ Truthy(biorxiv_keywords)
  /\ pc' = "bx_loop"
  /\ server' = "biorxiv"
  /\ categories' = biorxiv_categories
  /\ keywords' = biorxiv_keywords
  /\ max_results' = max_per_source
  /\ papers' = <<>>
  /\ cursor' = 0
  /\ seen' = <<>>
  /\ trace' = Append(trace, Event("call", "biorxiv", max_per_source, "ok"))
  /\ UNCHANGED << argVars, all_papers, pmids, i, result, good, ret, budget, quota, batches,
                  objVars, server_total >>

\* line 339 is false
AggSkipBiorxiv ==
  /\ pc = "agg_biorxiv"
  /\ ~(Truthy(biorxiv_categories) \/ Truthy(biorxiv_keywords))
  /\ pc' = "agg_medrxiv"
  /\ UNCHANGED << argVars, bxArgs, all_papers, max_results, papers, cursor,
                  pmids, i, result, trace, seen, good, ret, budget, quota, batches,
                  objVars, server_total >>

\* lines 350-357: the call of fetch_biorxiv_papers(server="medrxiv")
AggCallMedrxiv ==
  /\ pc = "agg_medrxiv"
  /\ Truthy(medrxiv_keywords)
  /\ pc' = "bx_loop"
  /\ server' = "medrxiv"
  /\ categories' = None
  /\ keywords' = medrxiv_keywords
  /\ max_results' = max_per_source
  /\ papers' = <<>>
  /\ cursor' = 0
  /\ seen' = <<>>
  /\ trace' = Append(trace, Event("call", "medrxiv", max_per_source, "ok"))
  /\ UNCHANGED << argVars, all_papers, pmids, i, result, good, ret, budget, quota, batches,
                  objVars, server_total >>

\* line 350 is false
AggSkipMedrxiv ==
  /\ pc = "agg_medrxiv"
  /\ ~Truthy(medrxiv_keywords)
  /\ pc' = "agg_dedup"
  /\ UNCHANGED << argVars, bxArgs, all_papers, max_results, papers, cursor,
                  pmids, i, result, trace, seen, good, ret, budget, quota, batches,
                  objVars, server_total >>

\* lines 360-370
AggDedup ==
  /\ pc = "agg_dedup"
  /\ result' = Deduplicate(all_papers)
  /\ pc' = "done"
  /\ trace' = Append(trace, Event("return", "all", Len(Deduplicate(all_papers)),
                                   "ok"))
  /\ UNCHANGED << argVars, bxArgs, all_papers, max_results, papers, cursor,
                  pmids, i, seen, good, ret, budget, quota, batches,
                  objVars, server_total >>

(* ------------------------------------------------------------------------ *)
(* _parse_pubmed_xml called on its own                                       *)
(* ------------------------------------------------------------------------ *)
\* the documents: well-formed with some PubmedArticle elements, or not
\* well-formed
Documents ==
  { [wellFormed |-> w, articles |-> d] :
      w \in BOOLEAN, d \in SeqUpTo(ParseArticles, MaxArticles) }

InitParseXml ==
  /\ entry = "_parse_pubmed_xml"
  /\ pc = "parse"
  /\ xml_text \in Documents
  /\ affiliations_raw = NoRaw
  /\ cached = Unset
  /\ reads = <<>>
  /\ NoFetch

InitParse == InitLocals /\ InitParseXml

\* lines 196-200: ET.fromstring raises ParseError, the empty list is returned
ParseXmlError ==
  /\ pc = "parse"
  /\ ~xml_text.wellFormed
  /\ result' = <<>>
  /\ pc' = "done"
  /\ UNCHANGED << argVars, bxArgs, all_papers, max_results, papers, cursor,
                  pmids, i, trace, seen, good, batches, ret, budget, quota,
                  objVars, server_total >>

\* lines 195-298 on a well-formed document
ParseXml ==
  /\ pc = "parse"
  /\ xml_text.wellFormed
  /\ result' = ParsePubmedXml(xml_text.articles)
  /\ pc' = "done"
  /\ UNCHANGED << argVars, bxArgs, all_papers, max_results, papers, cursor,
                  pmids, i, trace, seen, good, batches, ret, budget, quota,
                  objVars, server_total >>

NextParse == ParseXmlError \/ ParseXml

(* ------------------------------------------------------------------------ *)
(* BiomedPaper.affiliations                                                  *)
(* ------------------------------------------------------------------------ *)
\* lines 161-167 from raw[k] on, with the membership test of line 165 made
\* on the raw string instead of the stripped one
RECURSIVE AffiliationsLoopRawSeen(_, _, _, _)
AffiliationsLoopRawSeen(raw, k, seen_set, out) ==
  IF k > Len(raw) THEN out
  ELSE LET a_clean == Strip(raw[k])
       IN IF a_clean # <<>> /\ raw[k] \notin seen_set
          THEN AffiliationsLoopRawSeen(raw, k + 1, seen_set \cup {a_clean},
                                       Append(out, a_clean))
          ELSE AffiliationsLoopRawSeen(raw, k + 1, seen_set, out)

\* lines 161-167 from raw[k] on
RECURSIVE AffiliationsLoop(_, _, _, _)
AffiliationsLoop(raw, k, seen_set, out) ==
  IF k > Len(raw) THEN out
  ELSE LET a_clean == Strip(raw[k])
       IN IF a_clean # <<>> /\ a_clean \notin seen_set
          THEN AffiliationsLoop(raw, k + 1, seen_set \cup {a_clean},
                                Append(out, a_clean))
          ELSE AffiliationsLoop(raw, k + 1, seen_set, out)

\* lines 158-172: the body of the property
Affiliations(raw) ==
  IF raw.kind = "list" /\ raw.items # <<>>
  THEN LET out == AffiliationsLoop(raw.items, 1, {}, <<>>)
       IN IF out # <<>> THEN ListAff(out) ELSE NoneAff
  ELSE IF raw.kind = "str" /\ Strip(raw.items[1]) # <<>>
  THEN ListAff(<< Strip(raw.items[1]) >>)
  ELSE NoneAff

\* the raw affiliation strings
RawStrings == { <<"M">>, <<" ", "M", " ">>, <<"H">>, <<" ">>, <<>> }

\* _data["affiliations_raw"]: a list of strings (the empty list when the key
\* is missing), one string, or a value that is neither
RawInputs ==
  { [kind |-> "list", items |-> l] : l \in SeqUpTo(RawStrings, MaxAffiliations) }
    \cup { [kind |-> "str", items |-> << str >>] : str \in RawStrings }
    \cup { NoRaw }

InitReadAffiliations ==
  /\ entry = "BiomedPaper.affiliations"
  /\ pc = "read"
  /\ xml_text = NoDocument
  /\ affiliations_raw \in RawInputs
  /\ cached = Unset
  /\ reads = <<>>
  /\ NoFetch

InitAffiliations == InitLocals /\ InitReadAffiliations

\* line 156, the first read: cached_property runs the body and stores its value
ReadAffiliationsFirst ==
  /\ pc = "read"
  /\ Len(reads) < MaxReads
  /\ ~cached.set
  /\ cached' = [set |-> TRUE, value |-> Affiliations(affiliations_raw)]
  /\ reads' = Append(reads, Affiliations(affiliations_raw))
  /\ UNCHANGED << argVars, bxArgs, pc, all_papers, max_results, papers, cursor,
                  pmids, i, result, trace, seen, good, batches, ret, budget,
                  quota, server_total, xml_text, affiliations_raw >>

\* line 156, a later read: cached_property gives the stored value
ReadAffiliationsCached ==
  /\ pc = "read"
  /\ Len(reads) < MaxReads
  /\ cached.set
  /\ reads' = Append(reads, cached.value)
  /\ UNCHANGED << argVars, bxArgs, pc, all_papers, max_results, papers, cursor,
                  pmids, i, result, trace, seen, good, batches, ret, budget,
                  quota, server_total, xml_text, affiliations_raw, cached >>

NextAffiliations == ReadAffiliationsFirst \/ ReadAffiliationsCached

(* ------------------------------------------------------------------------ *)
(* Specification                                                             *)
(* ------------------------------------------------------------------------ *)
NextBiorxiv ==
  \/ BxLoopExit
  \/ BxPageFail
  \/ \E collection \in Collections, meta \in Metas : BxPage(collection, meta)
  \/ BxSleep
  \/ BxReturn

NextPubmed ==
  \/ PmSearchFail
  \/ PmSearchMalformed
  \/ \E n \in IdCounts : PmSearch(n)
  \/ PmBatchFail
  \/ PmBatchUnparseable
  \/ \E doc \in SeqUpTo(PmArticles, budget) : PmBatch(doc)
  \/ PmSleep
  \/ PmReturn

NextDedup == AggDedup

Next ==
  \/ NextBiorxiv
  \/ NextPubmed
  \/ AggCallPubmed
  \/ AggSkipPubmed
  \/ AggCallBiorxiv
  \/ AggSkipBiorxiv
  \/ AggCallMedrxiv
  \/ AggSkipMedrxiv
  \/ AggDedup

\* a call of fetch_all_biomed_papers
Spec == Init /\ [][Next]_vars

\* a call of fetch_biorxiv_papers
SpecBiorxiv == InitBiorxiv /\ [][NextBiorxiv]_vars

\* a call of fetch_pubmed_papers
SpecPubmed == InitPubmed /\ [][NextPubmed]_vars

\* the deduplication of fetch_all_biomed_papers on every list it can be given
SpecDedup == InitDedup /\ [][NextDedup]_vars

\* a call of fetch_biorxiv_papers against a server with a constant total;
\* the one thread of the call runs every step it reaches
SpecBiorxivSteady ==
  InitBiorxivSteady /\ [][NextBiorxiv]_vars /\ WF_vars(NextBiorxiv)

\* a call of _parse_pubmed_xml
SpecParse == InitParse /\ [][NextParse]_vars

\* reads of the affiliations property of one BiomedPaper
SpecAffiliations == InitAffiliations /\ [][NextAffiliations]_vars

TypeOK ==
  /\ pc \in {"agg_pubmed", "agg_biorxiv", "agg_medrxiv", "agg_dedup",
             "bx_loop", "bx_sleep", "bx_ret", "pm_search", "pm_batch",
             "pm_sleep", "pm_ret", "done", "raised", "parse", "read"}
  /\ budget \in 0..MaxRecords \cup 0..MaxAggRecords
  /\ quota \in 0..MaxRequests \cup 0..MaxAggRequests

(* ------------------------------------------------------------------------ *)
(* Vocabulary of the properties                                              *)
(* ------------------------------------------------------------------------ *)
\* the dedup key as the specification words it: the doi if non-empty, else
\* the title lower-cased and whitespace-trimmed
SpecKey(p) == IF p.doi # <<>> THEN p.doi ELSE Strip(Lower(p.title))

\* positions of the papers no earlier paper shares its dedup key with
FirstSeen(all) ==
  { k \in 1..Len(all) : \A j \in 1..(k - 1) : SpecKey(all[j]) # SpecKey(all[k]) }

\* out is the subsequence of all at the positions keep, in order
IsSubsequenceAt(out, all, keep) ==
  /\ Len(out) = Cardinality(keep)
  /\ \A k \in keep : out[Cardinality(keep \cap 1..k)] = all[k]

ReturnedAll == entry = "fetch_all_biomed_papers" /\ pc = "done"

(* ------------------------------------------------------------------------ *)
(* C1: the output of the deduplication is the subsequence of the             *)
(* concatenated papers made of exactly those papers that no earlier paper    *)
(* shares its dedup key with (doi if non-empty, else the lower-cased,        *)
(* trimmed title), so no two output papers share a dedup key and papers      *)
(* with empty doi whose titles differ only by case or surrounding            *)
(* whitespace collapse to the first.                                         *)
(* ------------------------------------------------------------------------ *)
C1_DedupFirstSeenWins ==
  ReturnedAll =>
    /\ IsSubsequenceAt(result, all_papers, FirstSeen(all_papers))
    /\ \A a, b \in 1..Len(result) :
         a # b => SpecKey(result[a]) # SpecKey(result[b])

\* three papers, the last with empty doi and a title that differs from the
\* first's only by case and whitespace: the last one is dropped
C1_Witness ==
  /\ ReturnedAll
  /\ Len(all_papers) = 3
  /\ all_papers[1].doi = <<>> /\ all_papers[3].doi = <<>>
  /\ all_papers[1].title # all_papers[3].title
  /\ Lower(Strip(all_papers[1].title)) = Lower(Strip(all_papers[3].title))
  /\ SpecKey(all_papers[2]) # SpecKey(all_papers[1])
  /\ result = << all_papers[1], all_papers[2] >>

(* ------------------------------------------------------------------------ *)
(* C2: a paper is constructed only from a record whose title and abstract    *)
(* are both non-empty, so every paper a fetcher holds or returns has a       *)
(* non-empty title and a non-empty summary.                                  *)
(* ------------------------------------------------------------------------ *)
HasRequiredFields(p) == Title(p) # <<>> /\ Summary(p) # <<>>

C2_RequiredFields ==
  /\ \A k \in 1..Len(papers) : HasRequiredFields(papers[k])
  /\ \A k \in 1..Len(result) : HasRequiredFields(result[k])

(* ------------------------------------------------------------------------ *)
(* C3: fetch_biorxiv_papers returns the first min(max_results, q) qualifying *)
(* records of the pages it fetched, in page order then in-page order, where  *)
(* a record qualifies iff it matches a supplied category (when categories    *)
(* are supplied) and a supplied keyword (when keywords are supplied).        *)
(* ------------------------------------------------------------------------ *)
Supplied(list) == list # None /\ Len(list) > 0

Qualifies(item) ==
  /\ Supplied(categories) => CategoryMatch(item, categories)
  /\ Supplied(keywords) => KeywordMatch(item, keywords)

\* the qualifying records among items, in order
RECURSIVE Qualifying(_)
Qualifying(items) ==
  IF items = <<>> THEN <<>>
  ELSE (IF Qualifies(Head(items)) THEN << Head(items) >> ELSE <<>>)
         \o Qualifying(Tail(items))

\* the papers of the first n of these records
AsPapers(items, n) ==
  [k \in 1..(IF n < Len(items) THEN n ELSE Len(items)) |->
     BiomedPaper(server, items[k].title, items[k].abstract, items[k].doi,
                 NoKey, <<>>)]

ReturnedBiorxiv == entry = "fetch_biorxiv_papers" /\ pc = "done"

C3_FilterThenCap ==
  ReturnedBiorxiv =>
    /\ result = AsPapers(Qualifying(seen), max_results)
    /\ Len(result) <= max_results

\* both filters supplied, the first record matches only one of them, more
\* records qualify than max_results allows
C3_Witness ==
  /\ ReturnedBiorxiv
  /\ Supplied(categories) /\ Supplied(keywords)
  /\ Len(seen) = 3
  /\ ~Qualifies(seen[1])
  /\ CategoryMatch(seen[1], categories) \/ KeywordMatch(seen[1], keywords)
  /\ Len(Qualifying(seen)) > max_results
  /\ Len(result) = max_results
  /\ max_results >= 1

(* ------------------------------------------------------------------------ *)
(* C4: when the request for page k of fetch_biorxiv_papers fails at          *)
(* transport level the call does not raise, issues no further request, and   *)
(* returns the papers accumulated from pages 0..k-1.                         *)
(* ------------------------------------------------------------------------ *)
IsFailedRequest(e) == e.ev = "request" /\ e.outcome = "fail"

C4_PageFailureKeepsPartial ==
  entry = "fetch_biorxiv_papers" =>
    \A k \in 1..Len(trace) :
      IsFailedRequest(trace[k]) =>
        /\ pc \in {"bx_ret", "done"}
        /\ \A j \in (k + 1)..Len(trace) : trace[j].ev = "return"
        /\ \A j \in 1..(k - 1) :
             trace[j].ev = "request" => trace[j].outcome = "ok"
        /\ papers = AsPapers(Qualifying(seen), max_results)
        /\ pc = "done" => result = papers

\* the second page fails after the first page gave a paper
C4_Witness ==
  /\ ReturnedBiorxiv
  /\ Len(trace) >= 2
  /\ IsFailedRequest(trace[Len(trace) - 1])
  /\ trace[Len(trace) - 1].n = PageSize
  /\ Len(result) = 1

(* ------------------------------------------------------------------------ *)
(* C5: once the search returned n >= 1 identifiers, fetch_pubmed_papers      *)
(* issues one detail-fetch request per batch, for ceil(n/50) consecutive     *)
(* batches of at most 50 identifiers in order, whichever batches fail; a     *)
(* failed or unparseable batch contributes nothing and does not raise, and   *)
(* the result is the concatenation of the papers of the batches that         *)
(* succeeded.                                                                *)
(* ------------------------------------------------------------------------ *)
IsEfetch(e) == e.ev = "request" /\ e.who = "efetch"

Efetches == SelectSeq(trace, IsEfetch)

\* the identifiers of these requests, in order
RECURSIVE ConcatIds(_)
ConcatIds(requests) ==
  IF requests = <<>> THEN <<>> ELSE Head(requests) \o ConcatIds(Tail(requests))

ReturnedPubmed == entry = "fetch_pubmed_papers" /\ pc = "done"

C5_OneRequestPerBatch ==
  entry = "fetch_pubmed_papers" =>
    /\ Len(batches) = Len(Efetches)
    /\ \A k \in 1..Len(Efetches) :
         /\ Efetches[k].n = (k - 1) * 50
         /\ Len(batches[k]) \in 1..50
         /\ pc # "raised"
    /\ ConcatIds(batches) = SubSeq(pmids, 1, Len(ConcatIds(batches)))
    /\ (pc = "done" /\ Len(pmids) >= 1) =>
         /\ Len(Efetches) = (Len(pmids) + 49) \div 50
         /\ ConcatIds(batches) = pmids
         /\ result = good

\* 101 identifiers: the first batch fails, the second is unparseable, the
\* third gives a paper
C5_Witness ==
  /\ ReturnedPubmed
  /\ Len(pmids) = 101
  /\ Len(Efetches) = 3
  /\ Efetches[1].outcome = "fail"
  /\ Efetches[2].outcome = "unparseable"
  /\ Efetches[3].outcome = "ok"
  /\ batches[3] = << 101 >>
  /\ Len(result) = 1

(* ------------------------------------------------------------------------ *)
(* C6: if the search round-trip fails, or succeeds with an empty identifier  *)
(* list, fetch_pubmed_papers returns the empty list without raising and      *)
(* without a detail-fetch request.                                           *)
(* ------------------------------------------------------------------------ *)
SearchFailedOrEmpty ==
  /\ Len(trace) >= 1
  /\ trace[1].ev = "request" /\ trace[1].who = "esearch"
  /\ \/ trace[1].outcome = "fail"
     \/ trace[1].outcome = "ok" /\ pmids = <<>>

C6_NoIdsNoDetailFetch ==
  (entry = "fetch_pubmed_papers" /\ SearchFailedOrEmpty) =>
    /\ pc \in {"pm_ret", "done"}
    /\ Efetches = <<>>
    /\ pc = "done" => result = <<>>

\* the search succeeded and listed nothing
C6_Witness ==
  /\ ReturnedPubmed
  /\ SearchFailedOrEmpty
  /\ trace[1].outcome = "ok"
  /\ result = <<>>

(* ------------------------------------------------------------------------ *)
(* C7: fetch_all_biomed_papers never raises because a request failed, a      *)
(* source all of whose requests failed contributes the empty sequence, what  *)
(* a source contributes depends on its own responses only, and the output    *)
(* is the deduplication of the concatenation of what the sources returned.   *)
(* ------------------------------------------------------------------------ *)
SourceOf(e) == IF e.who \in {"esearch", "efetch"} THEN "pubmed" ELSE e.who

RequestsOf(s) ==
  { k \in 1..Len(trace) : trace[k].ev = "request" /\ SourceOf(trace[k]) = s }

FullyFailed(s) ==
  /\ ret[s].called
  /\ RequestsOf(s) # {}
  /\ \A k \in RequestsOf(s) : trace[k].outcome = "fail"

Contributions ==
  ret["pubmed"].papers \o ret["biorxiv"].papers \o ret["medrxiv"].papers

C7_SourceFailuresIsolated ==
  entry = "fetch_all_biomed_papers" =>
    /\ pc = "raised" =>
         /\ Len(trace) >= 2
         /\ trace[Len(trace)].ev = "raise"
         /\ trace[Len(trace) - 1].ev = "request"
         /\ trace[Len(trace) - 1].outcome # "fail"
    /\ \A s \in Sources : FullyFailed(s) => ret[s].papers = <<>>
    /\ pc = "pm_ret" => papers = good
    /\ pc = "bx_ret" => papers = AsPapers(Qualifying(seen), max_per_source)
    /\ \A s \in Sources : ret[s].called =>
         \E k \in 1..Len(trace) :
           /\ trace[k].ev = "return" /\ trace[k].who = s
           /\ trace[k].n = Len(ret[s].papers)
    /\ pc = "done" =>
         IsSubsequenceAt(result, Contributions, FirstSeen(Contributions))

\* the search fails, the bioRxiv page fails, medRxiv gives a paper
C7_Witness ==
  /\ ReturnedAll
  /\ FullyFailed("pubmed")
  /\ FullyFailed("biorxiv")
  /\ ret["medrxiv"].called
  /\ Len(ret["medrxiv"].papers) = 1
  /\ result = ret["medrxiv"].papers

(* ------------------------------------------------------------------------ *)
(* C8: the sources are invoked in the order PubMed, bioRxiv, medRxiv, each   *)
(* at most once and only after the previous one returned; a source without   *)
(* its configuration is skipped with no request; before deduplication the    *)
(* papers are in source order, each source's order preserved.                *)
(* ------------------------------------------------------------------------ *)
Rank(s) == CASE s = "pubmed" -> 1 [] s = "biorxiv" -> 2 [] s = "medrxiv" -> 3

CallsAt == { k \in 1..Len(trace) : trace[k].ev = "call" }

Configured(s) ==
  CASE s = "pubmed" -> pubmed_query # QueryNone /\ Len(pubmed_query) > 0
    [] s = "biorxiv" -> Supplied(biorxiv_categories) \/ Supplied(biorxiv_keywords)
    [] s = "medrxiv" -> Supplied(medrxiv_keywords)

\* the source whose call is running at position k of the history, if any
RunningAt(k) ==
  { trace[c].who : c \in { c \in CallsAt : c < k /\
      ~\E r \in (c + 1)..(k - 1) :
          trace[r].ev = "return" /\ trace[r].who = trace[c].who } }

C8_SourceOrder ==
  entry = "fetch_all_biomed_papers" =>
    /\ \A a, b \in CallsAt : a < b => Rank(trace[a].who) < Rank(trace[b].who)
    /\ \A k \in CallsAt : RunningAt(k) = {}
    /\ \A k \in 1..Len(trace) :
         trace[k].ev = "request" => RunningAt(k) = { SourceOf(trace[k]) }
    /\ \A k \in CallsAt : Configured(trace[k].who)
    /\ \A s \in Sources :
         /\ ~Configured(s) => (~ret[s].called /\ RequestsOf(s) = {})
         /\ ret[s].called => \E k \in CallsAt : trace[k].who = s
         /\ (pc \in {"agg_dedup", "done"} /\ Configured(s)) => ret[s].called
    /\ pc # "raised" => all_papers = Contributions

\* PubMed and medRxiv are invoked and give a paper each, bioRxiv is skipped
C8_Witness ==
  /\ ReturnedAll
  /\ ~Configured("biorxiv")
  /\ Len(ret["pubmed"].papers) = 1
  /\ Len(ret["medrxiv"].papers) = 1
  /\ all_papers[1].source = "pubmed" /\ all_papers[2].source = "medrxiv"
  /\ pubmed_query # QueryNone

(* ------------------------------------------------------------------------ *)
(* C9: if the concatenated papers have pairwise distinct DOI values, the     *)
(* deduplicated output has as many papers as the input.                      *)
(* ------------------------------------------------------------------------ *)
DistinctDois(all) ==
  \A a, b \in 1..Len(all) : a # b => all[a].doi # all[b].doi

C9_DistinctDoisKeepAll ==
  (ReturnedAll /\ DistinctDois(all_papers)) => Len(result) = Len(all_papers)

(* ------------------------------------------------------------------------ *)
(* C10: paper_id is the PMID for a search-index paper and the DOI            *)
(* otherwise, and no two papers of the output have the same paper_id.        *)
(* ------------------------------------------------------------------------ *)
C10_UniquePaperId ==
  ReturnedAll =>
    /\ \A k \in 1..Len(result) :
         PaperId(result[k]) = IF result[k].source = "pubmed"
                              THEN result[k].pmid ELSE result[k].doi
    /\ \A a, b \in 1..Len(result) :
         a # b => PaperId(result[a]) # PaperId(result[b])

(* ------------------------------------------------------------------------ *)
(* C11: for every paper _parse_pubmed_xml produces, pdf_url is the PMC       *)
(* full-text link of the record's pmc identifier when it has one (also       *)
(* when it has a DOI), otherwise the DOI-resolver link of its DOI when it    *)
(* has one, otherwise the empty string.                                      *)
(* ------------------------------------------------------------------------ *)
\* the k-th ArticleId is an identifier of this type of the record itself
IsOwnId(a, k, type) ==
  a.ids[k][1] = type /\ a.ids[k][2] # <<>> /\ a.ids[k][3]

\* the record carries an identifier of this type
HasId(a, type) == \E k \in 1..Len(a.ids) : IsOwnId(a, k, type)

\* its first identifier of this type
IdOf(a, type) ==
  a.ids[CHOOSE k \in 1..Len(a.ids) :
          /\ IsOwnId(a, k, type)
          /\ \A j \in 1..(k - 1) : ~IsOwnId(a, j, type)][2]

ExpectedLink(a) ==
  IF HasId(a, "pmc")
  THEN <<"https://www.ncbi.nlm.nih.gov/pmc/articles/">> \o IdOf(a, "pmc")
         \o <<"/pdf/">>
  ELSE IF HasId(a, "doi") THEN <<"https://doi.org/">> \o IdOf(a, "doi")
  ELSE <<>>

ReturnedParse == entry = "_parse_pubmed_xml" /\ pc = "done"

\* the elements of the document a paper of the result was made from
ElementsOf(p) ==
  { a \in { xml_text.articles[k] : k \in 1..Len(xml_text.articles) } :
      a.pmid = p.pmid }

C11_PdfUrlPrecedence ==
  ReturnedParse =>
    \A k \in 1..Len(result) :
      /\ ElementsOf(result[k]) # {}
      /\ \A a \in ElementsOf(result[k]) : PdfUrl(result[k]) = ExpectedLink(a)

(* ------------------------------------------------------------------------ *)
(* C12: every read of affiliations gives a sequence of strings holding each  *)
(* distinct trimmed non-empty raw affiliation exactly once, in order of      *)
(* first occurrence, and every read gives what the first read gave.          *)
(* ------------------------------------------------------------------------ *)
\* the raw affiliations, trimmed
Trimmed(raw) ==
  IF raw.kind = "other" THEN <<>>
  ELSE [k \in 1..Len(raw.items) |-> Strip(raw.items[k])]

\* positions of the non-empty trimmed affiliations that occur there first
FirstOccurrences(t) ==
  { k \in 1..Len(t) : t[k] # <<>> /\ \A j \in 1..(k - 1) : t[j] # t[k] }

IsDedupOf(list, raw) ==
  IsSubsequenceAt(list, Trimmed(raw), FirstOccurrences(Trimmed(raw)))

C12_AffiliationsSequence ==
  entry = "BiomedPaper.affiliations" =>
    \A k \in 1..Len(reads) :
      /\ ~reads[k].isNone
      /\ IsDedupOf(reads[k].list, affiliations_raw)
      /\ reads[k] = reads[1]

\* C12 as the code has it: every read of affiliations gives None when no raw
\* affiliation is non-empty after trimming (an empty or missing list
\* included), and otherwise the sequence holding each distinct trimmed
\* non-empty raw affiliation exactly once, in order of first occurrence; and
\* every read gives what the first read gave.
C12_AffiliationsOrNone ==
  entry = "BiomedPaper.affiliations" =>
    \A k \in 1..Len(reads) :
      /\ reads[k].isNone <=> FirstOccurrences(Trimmed(affiliations_raw)) = {}
      /\ IsDedupOf(reads[k].list, affiliations_raw)
      /\ reads[k] = reads[1]

\* raw ["M", "H", " M "] read twice: both reads give ["M", "H"]
C12_Witness ==
  /\ entry = "BiomedPaper.affiliations"
  /\ affiliations_raw = [kind |-> "list",
                         items |-> << <<"M">>, <<"H">>, <<" ", "M", " ">> >>]
  /\ Len(reads) = 2
  /\ reads[1] = ListAff(<< <<"M">>, <<"H">> >>)
  /\ reads[2] = reads[1]

(* ------------------------------------------------------------------------ *)
(* C13: fetch_pubmed_papers returns at most max_results papers, whatever     *)
(* the search lists and whatever the detail-fetch documents hold.            *)
(* ------------------------------------------------------------------------ *)
C13_PubmedAtMostMaxResults ==
  ReturnedPubmed => Len(result) <= max_results

(* ------------------------------------------------------------------------ *)
(* C14: in fetch_pubmed_papers the 0.4 s sleep is executed between any two   *)
(* consecutive detail-fetch requests, whether the earlier one succeeded or   *)
(* failed.                                                                   *)
(* ------------------------------------------------------------------------ *)
\* positions a < b of the history hold consecutive requests of this kind
ConsecutiveRequests(a, b, who) ==
  /\ a < b
  /\ trace[a].ev = "request" /\ trace[a].who = who
  /\ trace[b].ev = "request" /\ trace[b].who = who
  /\ \A c \in (a + 1)..(b - 1) : trace[c].ev # "request"

SleepBetween(a, b) == \E c \in (a + 1)..(b - 1) : trace[c].ev = "sleep"

C14_SleepBetweenBatches ==
  entry = "fetch_pubmed_papers" =>
    \A a, b \in 1..Len(trace) :
      ConsecutiveRequests(a, b, "efetch") => SleepBetween(a, b)

(* ------------------------------------------------------------------------ *)
(* C15: in fetch_biorxiv_papers the 1 s sleep is executed between any two    *)
(* consecutive page requests of a call.                                      *)
(* ------------------------------------------------------------------------ *)
C15_SleepBetweenPages ==
  entry = "fetch_biorxiv_papers" =>
    \A a, b \in 1..Len(trace) :
      ConsecutiveRequests(a, b, server) =>
        \E c \in (a + 1)..(b - 1) :
          trace[c].ev = "sleep" /\ trace[c].outcome = "1s"

\* a call that requested three pages and returned
C15_Witness ==
  /\ ReturnedBiorxiv
  /\ Len(trace) = 6
  /\ ConsecutiveRequests(1, 3, server) /\ trace[2].ev = "sleep"
  /\ ConsecutiveRequests(3, 5, server) /\ trace[4].ev = "sleep"
  /\ trace[6].ev = "return"

(* ------------------------------------------------------------------------ *)
(* C16: in fetch_biorxiv_papers a page that decodes but is malformed (empty  *)
(* messages list, unusable total, record with a null category) is at worst   *)
(* an empty page: the call does not raise and returns the papers of the      *)
(* earlier pages.                                                            *)
(* ------------------------------------------------------------------------ *)
C16_MalformedPageNoRaise ==
  entry = "fetch_biorxiv_papers" =>
    /\ pc # "raised"
    /\ \A k \in 1..Len(trace) : trace[k].ev # "raise"

(* ------------------------------------------------------------------------ *)
(* C17: every call of fetch_biorxiv_papers against a server reporting a      *)
(* constant total T terminates; a page is requested only while the papers    *)
(* are fewer than max_results, no page was empty, no request failed and the  *)
(* cursor is below T (after the first page); at most max(1, ceil(T/100))     *)
(* pages are requested, and none when max_results <= 0.                      *)
(* ------------------------------------------------------------------------ *)
PagesNeeded(t) == IF t <= 100 THEN 1 ELSE (t + 99) \div 100

RequestCountBounded ==
  /\ Cardinality(RequestsOf(server)) <= PagesNeeded(server_total)
  /\ max_results <= 0 => RequestsOf(server) = {}

\* this step issues a page request
IssuesRequest ==
  /\ Len(trace') > Len(trace)
  /\ trace'[Len(trace) + 1].ev = "request"

\* no stop condition holds when a page is requested: every earlier request
\* succeeded and its page, being non-empty, moved the cursor on
RequestOnlyWhileNeeded ==
  IssuesRequest =>
    /\ Len(papers) < max_results
    /\ cursor = 0 \/ cursor < server_total
    /\ \A k \in RequestsOf(server) : trace[k].outcome = "ok"
    /\ cursor = 100 * Cardinality(RequestsOf(server))
    /\ cursor > 0 => seen # <<>>

Terminated == pc \in {"done", "raised"}

IsPageRequest(e) == e.ev = "request" /\ e.who = server

PageRequests == SelectSeq(trace, IsPageRequest)

C18_CursorSequence ==
  entry = "fetch_biorxiv_papers" =>
    \A k \in 1..Len(PageRequests) : PageRequests[k].n = 100 * (k - 1)

\* three pages were requested, the third request failed
C18_Witness ==
  /\ ReturnedBiorxiv
  /\ Len(PageRequests) = 3
  /\ PageRequests[1].n = 0 /\ PageRequests[2].n = 100 /\ PageRequests[3].n = 200
  /\ PageRequests[3].outcome = "fail"

====
